---- MODULE Spec2Model ----
(***************************************************************************)
(* The Martingale/DCA engine of modules/strategies/martingale_dca.py and   *)
(* its JSON persistence (data/equities.json, its .bak sidecar and the      *)
(* .backup_<timestamp> quarantine files).                                  *)
(*                                                                         *)
(* Prices are integers counted in ticks of the asset class's precision     *)
(* (stock 10^-2, crypto 10^-8, forex 10^-5), so round(x, precision) is     *)
(* rounding to a whole number of ticks.  Percentages are carried in tenths *)
(* of a percent, the level multipliers in tenths, and the comparisons of   *)
(* the code are done in exact integer arithmetic.                          *)
(***************************************************************************)
EXTENDS Integers, Sequences, FiniteSets, TLC

VARIABLES
  equities,    \* self.equities: symbol -> record, the in-memory map
  running,     \* whether a MartingaleDCAStrategy object is alive
  store,       \* content of self.equities_file
  bak,         \* content of <equities_file>.bak
  backups,     \* content of <equities_file>.backup_<ts>, per timestamp
  signals,     \* the list returned by the last execute() call
  result,      \* the last operation: its name, return value, whether it mutated
  threads,     \* per thread of the host: the engine call it is inside, and where
  call         \* a call of one of the pure components: its arguments and its result

vars == <<equities, running, store, bak, backups, signals, result, threads, call>>

(***************************************************************************)
(* Bounds of the model.                                                    *)
(***************************************************************************)
\* how many prices of PriceLadder the two-symbol specification feeds
NumPrices == 2
\* how many prices of PriceLadder the single-symbol specification feeds
NumLadderPrices == 5

Symbols == {"AAPL", "BTC-USD"}

\* Prices in ticks: an entry at 200 and drops of 6%, 4.5%, 2.5%, 12%, 5.5% and 18%
\* from it, which fall on either side of the class triggers (5%, 3%, 2%) and of
\* the first levels.
PriceLadder == <<200, 188, 191, 195, 176, 189, 164>>
PricesUpTo(n) ==
  {0} \cup {PriceLadder[i] : i \in {j \in 1..n : j <= Len(PriceLadder)}}
Prices == PricesUpTo(NumPrices)
LadderPrices == PricesUpTo(NumLadderPrices)

\* the timestamps datetime.now() can give
Times == {1}

\* The characters of each symbol, as _get_asset_type reads them.
SymbolChars(symbol) ==
  CASE symbol = "AAPL" -> <<"A", "A", "P", "L">>
    [] symbol = "BTC-USD" -> <<"B", "T", "C", "-", "U", "S", "D">>
    [] OTHER -> <<>>

\* add_equity's arguments: <<levels, drawdown_pct in tenths of a percent, asset_type>>;
\* "none" is asset_type=None (the class is detected from the symbol).
AddArgs == { <<3, 50, "stock">>, <<0, 5, "none">>, <<99, 500, "forex">> }

(***************************************************************************)
(* File contents.                                                          *)
(***************************************************************************)
NoFile == [kind |-> "missing"]
ZeroLength == [kind |-> "zero"]
InvalidJson == [kind |-> "invalid_json"]
Undecodable == [kind |-> "undecodable"]
NotRecordMap == [kind |-> "not_record_map"]
Malformed == {InvalidJson, Undecodable, NotRecordMap}

EmptyEquities == [s \in {} |-> 0]

\* json.dump(self.equities, f, indent=2, default=str)
Serialize(eq) == [kind |-> "json", map |-> eq]

\* json.load(f) of a content that Serialize wrote
Parse(content) == content.map

(***************************************************************************)
(* Asset classes.                                                          *)
(***************************************************************************)
AssetConfigs == {"stock", "crypto", "forex"}

LowerLetters == <<"a", "b", "c", "d", "e", "f", "g", "h", "i", "j", "k", "l", "m",
                  "n", "o", "p", "q", "r", "s", "t", "u", "v", "w", "x", "y", "z">>
UpperLetters == <<"A", "B", "C", "D", "E", "F", "G", "H", "I", "J", "K", "L", "M",
                  "N", "O", "P", "Q", "R", "S", "T", "U", "V", "W", "X", "Y", "Z">>
Digits == {"0", "1", "2", "3", "4", "5", "6", "7", "8", "9"}

\* str.upper(), character by character
Upper(chars) ==
  [i \in 1..Len(chars) |->
     IF \E k \in 1..26 : LowerLetters[k] = chars[i]
     THEN UpperLetters[CHOOSE k \in 1..26 : LowerLetters[k] = chars[i]]
     ELSE chars[i]]

\* str.endswith(suffix)
EndsWith(chars, suffix) ==
  /\ Len(chars) >= Len(suffix)
  /\ \A i \in 1..Len(suffix) : chars[Len(chars) - Len(suffix) + i] = suffix[i]

CryptoTickers ==
  { <<"B", "T", "C">>, <<"E", "T", "H">>, <<"A", "D", "A">>, <<"D", "O", "T">>,
    <<"L", "I", "N", "K">>, <<"L", "T", "C">>, <<"X", "R", "P">>,
    <<"D", "O", "G", "E">>, <<"M", "A", "T", "I", "C">>, <<"S", "O", "L">> }

\* _get_asset_type(symbol)
GetAssetType(symbol) ==
  LET chars == SymbolChars(symbol)
      up == Upper(chars)
  IN  IF EndsWith(up, <<"-", "U", "S", "D">>) \/ EndsWith(up, <<"U", "S", "D">>)
        THEN "crypto"
      ELSE IF up \in CryptoTickers THEN "crypto"
      ELSE IF (\E i \in 1..Len(chars) : chars[i] = "=")
              \/ (Len(chars) = 6 /\ ~(\E i \in 1..Len(chars) : chars[i] \in Digits))
        THEN "forex"
      ELSE IF EndsWith(up, <<"=", "X">>) THEN "forex"
      ELSE "stock"

\* Faulty variant: one trigger for every class
GetTriggerThresholdFlat(asset_type) == 5

\* _get_trigger_threshold(asset_type), in percent: 0.05, 0.03, 0.02
GetTriggerThreshold(asset_type) ==
  CASE asset_type = "stock" -> 5
    [] asset_type = "crypto" -> 3
    [] asset_type = "forex" -> 2
    [] OTHER -> 5

\* Faulty variant: no class scales the spacing of the levels
LevelMultiplierFlat(asset_type) == 10

\* the multipliers table of generate_dca_levels, in tenths: 1.2, 1.3, 1.1
LevelMultiplier(asset_type) ==
  CASE asset_type = "stock" -> 12
    [] asset_type = "crypto" -> 13
    [] asset_type = "forex" -> 11
    [] OTHER -> 12

\* round(n / d) to the nearest integer, ties to the even one (Python's round)
RoundDiv(n, d) ==
  LET q == n \div d
      r == n % d
  IN  IF 2 * r < d THEN q
      ELSE IF 2 * r > d THEN q + 1
      ELSE IF q % 2 = 0 THEN q ELSE q + 1

\* generate_dca_levels(entry_price, drawdown_pct, levels, asset_type):
\* level i (from 0) is round(entry_price * (1 - drawdown_pct*(i+1)*multiplier/100), precision)
GenerateDcaLevels(entry_price, drawdown_pct, levels, asset_type) ==
  [i \in 1..levels |->
     RoundDiv(entry_price * (10000 - drawdown_pct * i * LevelMultiplier(asset_type)), 10000)]

(***************************************************************************)
(* Persistence.  A file system fs is [store, bak, backups].                *)
(***************************************************************************)

\* Faulty variant: the store is rewritten first and copied to .bak afterwards
SaveEquitiesCopyAfter(eq, fs) ==
  IF fs.store # NoFile /\ fs.store = Undecodable
  THEN [fs |-> [fs EXCEPT !.bak = ZeroLength], ok |-> FALSE]
  ELSE LET written == [fs EXCEPT !.store = Serialize(eq)]
       IN  [fs |-> IF fs.store # NoFile THEN [written EXCEPT !.bak = written.store]
                   ELSE written,
            ok |-> TRUE]

\* save_equities(): copy the existing store to .bak, then rewrite the store.
\* An existing store that cannot be decoded makes src.read() raise after .bak
\* was opened for writing (and so truncated); the exception is caught and
\* False returned, the store untouched.
SaveEquities(eq, fs) ==
  IF fs.store # NoFile /\ fs.store = Undecodable
  THEN [fs |-> [fs EXCEPT !.bak = ZeroLength], ok |-> FALSE]
  ELSE LET copied == IF fs.store # NoFile THEN [fs EXCEPT !.bak = fs.store] ELSE fs
       IN  [fs |-> [copied EXCEPT !.store = Serialize(eq)], ok |-> TRUE]

\* the migration loop of load_equities: an entry without asset_type gets the
\* class detected from its symbol
Migrate(eq) ==
  [s \in DOMAIN eq |->
     IF "asset_type" \in DOMAIN eq[s] THEN eq[s]
     ELSE [f \in DOMAIN eq[s] \cup {"asset_type"} |->
             IF f = "asset_type" THEN GetAssetType(s) ELSE eq[s][f]]]

\* Faulty variant: the size of the file is not looked at
HasContentAnySize(fs) == fs.store # NoFile

\* os.path.exists(self.equities_file) and os.path.getsize(self.equities_file) > 0
HasContent(fs) == fs.store # NoFile /\ fs.store # ZeroLength

\* load_equities(), ts the timestamp datetime.now() gives the backup's name
LoadEquities(fs, ts) ==
  IF HasContent(fs)
  THEN CASE fs.store.kind = "json" ->
              \* json.load succeeds
              [eq |-> Migrate(Parse(fs.store)), fs |-> fs]
         [] fs.store.kind \in {"invalid_json", "zero"} ->
              \* except json.JSONDecodeError: rename to .backup_<ts>, start empty, save
              LET moved == [fs EXCEPT !.backups[ts] = fs.store, !.store = NoFile]
              IN  [eq |-> EmptyEquities, fs |-> SaveEquities(EmptyEquities, moved).fs]
         [] OTHER ->
              \* except Exception (UnicodeDecodeError, AttributeError, TypeError):
              \* start empty; nothing is renamed and nothing is saved
              [eq |-> EmptyEquities, fs |-> fs]
  ELSE \* no file, or a file of size 0: start empty and create the file
       [eq |-> EmptyEquities, fs |-> SaveEquities(EmptyEquities, fs).fs]

(***************************************************************************)
(* The engine's operations, as functions of the in-memory map and the file *)
(* system.                                                                 *)
(***************************************************************************)

\* Faulty variant: the arguments are stored as they were given
NewEquityUnclamped(symbol, levels, drawdown_pct, asset_arg, ts) ==
  LET detected == IF asset_arg = "none" THEN GetAssetType(symbol) ELSE asset_arg
  IN  [levels |-> levels,
       drawdown_pct |-> drawdown_pct,
       asset_type |-> IF detected \notin AssetConfigs THEN "stock" ELSE detected,
       system_on |-> FALSE,
       has_position |-> FALSE,
       entry_price |-> 0,
       last_buy_price |-> 0,
       position_count |-> 0,
       created_at |-> ts,
       total_invested |-> 0,
       avg_cost_basis |-> 0]

\* the clamping and the record of add_equity
NewEquity(symbol, levels, drawdown_pct, asset_arg, ts) ==
  LET detected == IF asset_arg = "none" THEN GetAssetType(symbol) ELSE asset_arg
      asset_type == IF detected \notin AssetConfigs THEN "stock" ELSE detected
      max_levels == CASE asset_type = "crypto" -> 15
                      [] asset_type = "forex" -> 8
                      [] OTHER -> 10
      max_drawdown == CASE asset_type = "crypto" -> 300
                        [] asset_type = "forex" -> 150
                        [] OTHER -> 200
      Min(a, b) == IF a < b THEN a ELSE b
      Max(a, b) == IF a > b THEN a ELSE b
  IN  [levels |-> Max(1, Min(levels, max_levels)),
       drawdown_pct |-> Max(10, Min(drawdown_pct, max_drawdown)),
       asset_type |-> asset_type,
       system_on |-> FALSE,
       has_position |-> FALSE,
       entry_price |-> 0,
       last_buy_price |-> 0,
       position_count |-> 0,
       created_at |-> ts,
       total_invested |-> 0,
       avg_cost_basis |-> 0]

\* self.equities[symbol] = value
Put(eq, symbol, value) ==
  [s \in DOMAIN eq \cup {symbol} |-> IF s = symbol THEN value ELSE eq[s]]

\* del self.equities[symbol]
Del(eq, symbol) == [s \in DOMAIN eq \ {symbol} |-> eq[s]]

\* add_equity(symbol, levels, drawdown_pct, asset_type)
AddEquityOp(eq, fs, symbol, levels, drawdown_pct, asset_arg, ts) ==
  LET eq1 == Put(eq, symbol, NewEquity(symbol, levels, drawdown_pct, asset_arg, ts))
      saved == SaveEquities(eq1, fs)
  IN  [eq |-> eq1, fs |-> saved.fs, ret |-> saved.ok, mutated |-> TRUE]

\* Faulty variant: switching the system also forgets the position
ToggleSystemOpResetting(eq, fs, symbol) ==
  IF symbol \in DOMAIN eq
  THEN LET eq1 == [eq EXCEPT ![symbol].system_on = ~eq[symbol].system_on,
                             ![symbol].has_position = FALSE]
       IN  [eq |-> eq1, fs |-> SaveEquities(eq1, fs).fs,
            ret |-> eq1[symbol].system_on, mutated |-> TRUE]
  ELSE [eq |-> eq, fs |-> fs, ret |-> FALSE, mutated |-> FALSE]

\* Faulty variant: switching the system off forgets the position
ToggleSystemOpForgetting(eq, fs, symbol) ==
  IF symbol \in DOMAIN eq
  THEN LET eq1 == [eq EXCEPT ![symbol].system_on = ~eq[symbol].system_on,
                             ![symbol].has_position =
                                eq[symbol].has_position /\ ~eq[symbol].system_on]
       IN  [eq |-> eq1, fs |-> SaveEquities(eq1, fs).fs,
            ret |-> eq1[symbol].system_on, mutated |-> TRUE]
  ELSE [eq |-> eq, fs |-> fs, ret |-> FALSE, mutated |-> FALSE]

\* toggle_system(symbol)
ToggleSystemOp(eq, fs, symbol) ==
  IF symbol \in DOMAIN eq
  THEN LET eq1 == [eq EXCEPT ![symbol].system_on = ~eq[symbol].system_on]
       IN  [eq |-> eq1, fs |-> SaveEquities(eq1, fs).fs,
            ret |-> eq1[symbol].system_on, mutated |-> TRUE]
  ELSE [eq |-> eq, fs |-> fs, ret |-> FALSE, mutated |-> FALSE]

\* Faulty variant: the removal is not saved
RemoveEquityOpUnsaved(eq, fs, symbol) ==
  IF symbol \in DOMAIN eq
  THEN [eq |-> Del(eq, symbol), fs |-> fs, ret |-> TRUE, mutated |-> TRUE]
  ELSE [eq |-> eq, fs |-> fs, ret |-> FALSE, mutated |-> FALSE]

\* remove_equity(symbol)
RemoveEquityOp(eq, fs, symbol) ==
  IF symbol \in DOMAIN eq
  THEN LET eq1 == Del(eq, symbol)
           saved == SaveEquities(eq1, fs)
       IN  [eq |-> eq1, fs |-> saved.fs, ret |-> saved.ok, mutated |-> TRUE]
  ELSE [eq |-> eq, fs |-> fs, ret |-> FALSE, mutated |-> FALSE]

\* Faulty variant: the switch is not looked at
IsActiveIgnoringSwitch(eq, symbol) == symbol \in DOMAIN eq

\* the condition of line 46: the symbol is tracked and its system is on
IsActive(eq, symbol) == symbol \in DOMAIN eq /\ eq[symbol].system_on

\* Faulty variant: the initial entry does not record its own fill price
EnterPositionKeepingLastBuy(equity_data, current_price) ==
  [equity_data EXCEPT !.has_position = TRUE,
                      !.entry_price = current_price,
                      !.position_count = 1]

\* the initial-entry update of execute (lines 67-70)
EnterPosition(equity_data, current_price) ==
  [equity_data EXCEPT !.has_position = TRUE,
                      !.entry_price = current_price,
                      !.last_buy_price = current_price,
                      !.position_count = 1]

\* the SignalData of the initial market order; confidence in percent
InitialEntrySignal(symbol, current_price, asset_type) ==
  [symbol |-> symbol, signal_type |-> "entry_long", price |-> current_price,
   confidence |-> 100, order_type |-> "initial_entry", asset_type |-> asset_type]

\* the SignalData of a DCA leg
DcaLevelSignal(symbol, level_price, position_count, asset_type) ==
  [symbol |-> symbol, signal_type |-> "entry_long", price |-> level_price,
   confidence |-> 80, order_type |-> "dca_level", level_price |-> level_price,
   position_count |-> position_count, asset_type |-> asset_type]

\* Faulty variant: the loop without its break
FiredLevelsNoBreak(levels, current_price, last_buy_price, trigger_threshold) ==
  LET hit(i) == /\ current_price <= levels[i]
                /\ current_price * 100 < last_buy_price * (100 - trigger_threshold)
  IN  SelectSeq([i \in 1..Len(levels) |-> i], hit)

\* Faulty variant: the deepest level that fires is the one that emits.
FiredLevelsDeepest(levels, current_price, last_buy_price, trigger_threshold) ==
  LET hits == {i \in 1..Len(levels) :
                 /\ current_price <= levels[i]
                 /\ current_price * 100 < last_buy_price * (100 - trigger_threshold)}
  IN  IF hits = {} THEN <<>>
      ELSE << CHOOSE i \in hits : \A j \in hits : i >= j >>

\* The for-loop over the levels (lines 84-111): the indices of the levels for
\* which the loop body emits.  last_buy_price is read once, before the loop;
\* the break ends the loop at the first level that fires.
FiredLevels(levels, current_price, last_buy_price, trigger_threshold) ==
  LET hits == {i \in 1..Len(levels) :
                 /\ current_price <= levels[i]
                 /\ current_price * 100 < last_buy_price * (100 - trigger_threshold)}
  IN  IF hits = {} THEN <<>>
      ELSE << CHOOSE i \in hits : \A j \in hits : i <= j >>

\* the body of the loop for each level that fires: emit, update, save
RECURSIVE DcaLegs(_, _, _, _, _, _, _)
DcaLegs(eq, fs, sigs, symbol, current_price, levels, fired) ==
  IF fired = <<>> THEN [eq |-> eq, fs |-> fs, signals |-> sigs]
  ELSE LET level_price == levels[Head(fired)]
           count == eq[symbol].position_count + 1
           eq1 == [eq EXCEPT ![symbol].last_buy_price = current_price,
                             ![symbol].position_count = count]
       IN  DcaLegs(eq1, SaveEquities(eq1, fs).fs,
                   Append(sigs, DcaLevelSignal(symbol, level_price, count,
                                               eq[symbol].asset_type)),
                   symbol, current_price, levels, Tail(fired))

\* execute({"symbol": symbol, "current_price": current_price})
Execute(eq, fs, symbol, current_price) ==
  IF current_price <= 0 THEN [eq |-> eq, fs |-> fs, signals |-> <<>>]
  ELSE IF ~IsActive(eq, symbol) THEN [eq |-> eq, fs |-> fs, signals |-> <<>>]
  ELSE LET asset_type == eq[symbol].asset_type
           entering == ~eq[symbol].has_position
           eq1 == IF entering
                  THEN [eq EXCEPT ![symbol] = EnterPosition(@, current_price)]
                  ELSE eq
           fs1 == IF entering THEN SaveEquities(eq1, fs).fs ELSE fs
           sig1 == IF entering
                   THEN << InitialEntrySignal(symbol, current_price, asset_type) >>
                   ELSE <<>>
           levels == GenerateDcaLevels(eq1[symbol].entry_price, eq1[symbol].drawdown_pct,
                                       eq1[symbol].levels, asset_type)
           fired == FiredLevels(levels, current_price, eq1[symbol].last_buy_price,
                                GetTriggerThreshold(asset_type))
       IN  DcaLegs(eq1, fs1, sig1, symbol, current_price, levels, fired)

(***************************************************************************)
(* The state machine.                                                      *)
(***************************************************************************)
FileSystem == [store |-> store, bak |-> bak, backups |-> backups]

\* the threads of the host that call into the engine
Threads == {1, 2}

\* a thread that is in no engine call
Idle == [pc |-> "idle", op |-> "none", symbol |-> "", price |-> 0,
         before |-> EmptyEquities, buffer |-> NoFile, signals |-> <<>>]

\* no pure component has been called
NoCall == [fn |-> "none", done |-> FALSE, args |-> <<>>, ret |-> <<>>]

SetFileSystem(fs) ==
  /\ store' = fs.store
  /\ bak' = fs.bak
  /\ backups' = fs.backups

Init ==
  /\ equities = EmptyEquities
  /\ running = FALSE
  /\ store = NoFile
  /\ bak = NoFile
  /\ backups = [ts \in Times |-> NoFile]
  /\ signals = <<>>
  /\ result = [op |-> "none", ok |-> TRUE, mutated |-> FALSE]
  /\ threads = [t \in Threads |-> Idle]
  /\ call = NoCall

\* something other than the engine rewrites or deletes the store while no
\* engine is running
ExternalWrite(content) ==
  /\ ~running
  /\ store' = content
  /\ result' = [op |-> "external_write", ok |-> TRUE, mutated |-> FALSE]
  /\ UNCHANGED <<equities, running, bak, backups, signals, threads, call>>

\* MartingaleDCAStrategy(): __init__ loads the store
Start(ts) ==
  /\ ~running
  /\ LET loaded == LoadEquities(FileSystem, ts)
     IN  /\ equities' = loaded.eq
         /\ SetFileSystem(loaded.fs)
  /\ running' = TRUE
  /\ signals' = <<>>
  /\ result' = [op |-> "start", ok |-> TRUE, mutated |-> FALSE]
  /\ UNCHANGED <<threads, call>>

\* the process ends; the in-memory map is gone
Stop ==
  /\ running
  /\ running' = FALSE
  /\ equities' = EmptyEquities
  /\ signals' = <<>>
  /\ result' = [op |-> "stop", ok |-> TRUE, mutated |-> FALSE]
  /\ UNCHANGED <<store, bak, backups, threads, call>>

AddEquity(symbol, args, ts) ==
  /\ running
  /\ LET r == AddEquityOp(equities, FileSystem, symbol, args[1], args[2], args[3], ts)
     IN  /\ equities' = r.eq
         /\ SetFileSystem(r.fs)
         /\ result' = [op |-> "add", ok |-> r.ret, mutated |-> r.mutated]
  /\ signals' = <<>>
  /\ UNCHANGED <<running, threads, call>>

ToggleSystem(symbol) ==
  /\ running
  /\ LET r == ToggleSystemOp(equities, FileSystem, symbol)
     IN  /\ equities' = r.eq
         /\ SetFileSystem(r.fs)
         /\ result' = [op |-> "toggle", ok |-> r.ret, mutated |-> r.mutated]
  /\ signals' = <<>>
  /\ UNCHANGED <<running, threads, call>>

RemoveEquity(symbol) ==
  /\ running
  /\ LET r == RemoveEquityOp(equities, FileSystem, symbol)
     IN  /\ equities' = r.eq
         /\ SetFileSystem(r.fs)
         /\ result' = [op |-> "remove", ok |-> r.ret, mutated |-> r.mutated]
  /\ signals' = <<>>
  /\ UNCHANGED <<running, threads, call>>

\* execute() has no raise statement and every path returns its list: the call
\* always returns normally (ok), tracked symbol or not
OnPrice(symbol, price) ==
  /\ running
  /\ LET r == Execute(equities, FileSystem, symbol, price)
     IN  /\ equities' = r.eq
         /\ SetFileSystem(r.fs)
         /\ signals' = r.signals
         /\ result' = [op |-> "on_price", ok |-> TRUE, mutated |-> r.eq # equities]
  /\ UNCHANGED <<running, threads, call>>

\* Two symbols; between two runs of the engine the store may be rewritten or
\* deleted by something else.
Next ==
  \/ \E content \in Malformed \cup {ZeroLength, NoFile} : ExternalWrite(content)
  \/ \E ts \in Times : Start(ts)
  \/ Stop
  \/ \E symbol \in Symbols, args \in AddArgs, ts \in Times : AddEquity(symbol, args, ts)
  \/ \E symbol \in Symbols : ToggleSystem(symbol)
  \/ \E symbol \in Symbols : RemoveEquity(symbol)
  \/ \E symbol \in Symbols, price \in Prices : OnPrice(symbol, price)

Spec == Init /\ [][Next]_vars

\* One symbol, fed the whole price ladder under every class; the store is
\* written by the engine alone.
LadderSymbols == {"BTC-USD"}
LadderAddArgs ==
  { <<3, 50, "stock">>, <<0, 5, "stock">>, <<0, 5, "none">>, <<0, 5, "forex">>,
    <<99, 500, "stock">>, <<99, 500, "none">>, <<99, 500, "forex">>,
    <<99, 500, "commodity">> }

LadderNext ==
  \/ \E ts \in Times : Start(ts)
  \/ Stop
  \/ \E symbol \in LadderSymbols, args \in LadderAddArgs, ts \in Times :
        AddEquity(symbol, args, ts)
  \/ \E symbol \in LadderSymbols : ToggleSystem(symbol)
  \/ \E symbol \in LadderSymbols : RemoveEquity(symbol)
  \/ \E symbol \in LadderSymbols, price \in LadderPrices : OnPrice(symbol, price)

LadderSpec == Init /\ [][LadderNext]_vars

(***************************************************************************)
(* Calls from two threads of the host.  The engine has no lock: a call's   *)
(* update of self.equities and the statements of its save_equities() are   *)
(* steps of their own, and the steps of two calls interleave.  The files   *)
(* are small, so the text json.dump produces stays in the file object's    *)
(* buffer until the with block closes the file.                            *)
(***************************************************************************)
ConcurrentPrices == {200, 188}
ConcurrentArgs == <<3, 50, "stock">>
ThreadOps == {"toggle", "remove", "on_price"}

InFlight(t) == threads[t].pc \notin {"idle", "returned"}
AllIdle == \A t \in Threads : threads[t].pc = "idle"

\* what a call does to self.equities before it calls save_equities(), and the
\* list execute() will return
MemoryOp(op, eq, fs, symbol, price) ==
  CASE op = "toggle" ->
         LET r == ToggleSystemOp(eq, fs, symbol)
         IN  [eq |-> r.eq, mutated |-> r.mutated, signals |-> <<>>]
    [] op = "remove" ->
         LET r == RemoveEquityOp(eq, fs, symbol)
         IN  [eq |-> r.eq, mutated |-> r.mutated, signals |-> <<>>]
    [] op = "on_price" ->
         LET r == Execute(eq, fs, symbol, price)
         IN  [eq |-> r.eq, mutated |-> r.eq # eq, signals |-> r.signals]

\* What a write of text at offset 0 leaves in a file that holds current: the
\* text alone when the file is empty or holds the same text; otherwise the text,
\* or the text followed by the tail of the longer content it did not cover.
Overlay(current, text) ==
  IF current \in {NoFile, ZeroLength} \/ current = text THEN {text}
  ELSE {text, InvalidJson}

\* thread t enters toggle_system, remove_equity or execute for a symbol no
\* other thread is working on, and updates self.equities
ThreadCall(t, op, symbol, price) ==
  /\ running
  /\ threads[t].pc = "idle"
  /\ \A u \in Threads \ {t} : threads[u].pc # "idle" => threads[u].symbol # symbol
  /\ LET m == MemoryOp(op, equities, FileSystem, symbol, price)
     IN  /\ equities' = m.eq
         /\ threads' = [threads EXCEPT ![t] =
               [pc |-> IF m.mutated THEN "saving" ELSE "returned",
                op |-> op, symbol |-> symbol,
                price |-> IF op = "on_price" THEN price ELSE 0,
                before |-> equities, buffer |-> NoFile, signals |-> m.signals]]
  /\ UNCHANGED <<running, store, bak, backups, signals, result, call>>

\* save_equities, lines 271-274: copy the store, as it is now, to .bak
SaveCopy(t) ==
  /\ threads[t].pc = "saving"
  /\ bak' = IF store = NoFile THEN bak
            ELSE IF store = Undecodable THEN ZeroLength
            ELSE store
  /\ threads' = [threads EXCEPT ![t].pc =
                   IF store = Undecodable THEN "returned" ELSE "opening"]
  /\ UNCHANGED <<equities, running, store, backups, signals, result, call>>

\* save_equities, lines 277-278: open(..., 'w') truncates the store, and
\* json.dump puts the text of self.equities, as it is now, in the buffer
SaveOpen(t) ==
  /\ threads[t].pc = "opening"
  /\ store' = ZeroLength
  /\ threads' = [threads EXCEPT ![t].pc = "writing",
                                ![t].buffer = Serialize(equities)]
  /\ UNCHANGED <<equities, running, bak, backups, signals, result, call>>

\* save_equities, end of the with block: the buffer is written at offset 0 of
\* the store, and the call returns
SaveClose(t) ==
  /\ threads[t].pc = "writing"
  /\ store' \in Overlay(store, threads[t].buffer)
  /\ threads' = [threads EXCEPT ![t].pc = "returned"]
  /\ UNCHANGED <<equities, running, bak, backups, signals, result, call>>

\* every call has returned: the host looks at the outcome
Join ==
  /\ \A t \in Threads : ~InFlight(t)
  /\ \E t \in Threads : threads[t].pc = "returned"
  /\ threads' = [t \in Threads |-> Idle]
  /\ UNCHANGED <<equities, running, store, bak, backups, signals, result, call>>

ConcurrentNext ==
  \/ \E ts \in Times : AllIdle /\ Start(ts)
  \/ \E symbol \in Symbols, ts \in Times :
        AllIdle /\ AddEquity(symbol, ConcurrentArgs, ts)
  \/ \E t \in Threads, op \in ThreadOps, symbol \in Symbols, price \in ConcurrentPrices :
        ThreadCall(t, op, symbol, price)
  \/ \E t \in Threads : SaveCopy(t)
  \/ \E t \in Threads : SaveOpen(t)
  \/ \E t \in Threads : SaveClose(t)
  \/ Join

ConcurrentSpec == Init /\ [][ConcurrentNext]_vars

(***************************************************************************)
(* A crash during save_equities.  One thread calls into the engine; the     *)
(* process may die once .bak has been written, before or after the store   *)
(* was truncated and with any part of the new text on disk.  The engine is *)
(* then started again.                                                     *)
(***************************************************************************)
CrashThreads == {1}

\* what the store holds when the process dies at pc: the old text when the
\* store was not opened yet; after that nothing, a part of the new text or
\* all of it
StoreAfterCrash(pc, buffer) ==
  IF pc = "opening" THEN {store} ELSE {ZeroLength, InvalidJson, buffer}

\* the process dies between lines 274 and 278 of a save_equities; the thread
\* record keeps, in buffer, the text that was persisted before this write
\* (the one the call has just copied to .bak)
Crash(t) ==
  /\ running
  /\ threads[t].pc \in {"opening", "writing"}
  /\ store' \in StoreAfterCrash(threads[t].pc, threads[t].buffer)
  /\ running' = FALSE
  /\ equities' = EmptyEquities
  /\ signals' = <<>>
  /\ threads' = [threads EXCEPT ![t] = [Idle EXCEPT !.pc = "crashed", !.buffer = bak]]
  /\ result' = [op |-> "crash", ok |-> FALSE, mutated |-> FALSE]
  /\ UNCHANGED <<bak, backups, call>>

CrashNext ==
  \/ \E ts \in Times : Start(ts)
  \/ \E symbol \in Symbols, ts \in Times :
        AllIdle /\ AddEquity(symbol, ConcurrentArgs, ts)
  \/ \E t \in CrashThreads, op \in ThreadOps, symbol \in Symbols,
        price \in ConcurrentPrices : ThreadCall(t, op, symbol, price)
  \/ \E t \in CrashThreads : SaveCopy(t)
  \/ \E t \in CrashThreads : SaveOpen(t)
  \/ \E t \in CrashThreads : SaveClose(t)
  \/ Join
  \/ \E t \in CrashThreads : Crash(t)

CrashSpec == Init /\ [][CrashNext]_vars

(***************************************************************************)
(* generate_dca_levels called on its own: the arguments are drawn in the    *)
(* initial state, the step applies the function.                           *)
(***************************************************************************)
\* entry prices in ticks: one tick, 49 ticks and 100.00 (for a stock)
EntryPrices == {1, 49, 10000}
LevelDrawdowns == {10, 50, 150, 200, 300}
LevelCounts == {1, 2, 3, 8, 10, 15}

\* the level counts and drawdowns add_equity lets through for a class
AcceptedByAdd(asset_type, levels, drawdown_pct) ==
  LET e == NewEquity("AAPL", levels, drawdown_pct, asset_type, 1)
  IN  e.levels = levels /\ e.drawdown_pct = drawdown_pct

LevelInputs ==
  { a \in [entry_price : EntryPrices, drawdown_pct : LevelDrawdowns,
           levels : LevelCounts, asset_type : AssetConfigs] :
      AcceptedByAdd(a.asset_type, a.levels, a.drawdown_pct) }

\* everything but the call is as in Init
NoEngine ==
  /\ equities = EmptyEquities
  /\ running = FALSE
  /\ store = NoFile
  /\ bak = NoFile
  /\ backups = [ts \in Times |-> NoFile]
  /\ signals = <<>>
  /\ result = [op |-> "none", ok |-> TRUE, mutated |-> FALSE]
  /\ threads = [t \in Threads |-> Idle]

LevelsInit ==
  /\ NoEngine
  /\ call \in { [fn |-> "generate_dca_levels", done |-> FALSE, args |-> a, ret |-> <<>>] :
                 a \in LevelInputs }

GenerateLevels ==
  /\ call.fn = "generate_dca_levels"
  /\ ~call.done
  /\ call' = [call EXCEPT !.done = TRUE,
                          !.ret = GenerateDcaLevels(call.args.entry_price,
                                                    call.args.drawdown_pct,
                                                    call.args.levels,
                                                    call.args.asset_type)]
  /\ UNCHANGED <<equities, running, store, bak, backups, signals, result, threads>>

LevelsNext == GenerateLevels

LevelsSpec == LevelsInit /\ [][LevelsNext]_vars

(***************************************************************************)
(* RiskManager.execute of modules/risk_management/position_sizing.py.      *)
(*                                                                         *)
(* A price is an integer number of ticks, the tick being the class's       *)
(* min_price (stock 0.01, crypto 0.000001, forex 0.00001).  The stop, the  *)
(* price risk and the take-profit are carried in thousandths of a tick     *)
(* ("milli"), in which every product of the code (x 1.5, x 0.99, x 0.02,   *)
(* x 2.5 ...) is a whole number.  Money is in whole dollars.               *)
(***************************************************************************)
MinOf(a, b) == IF a < b THEN a ELSE b
MaxOf(a, b) == IF a > b THEN a ELSE b
AbsOf(a) == IF a < 0 THEN -a ELSE a

\* self.account_size
AccountSize == 10000

\* how many ticks (min_price) make a dollar
TicksPerDollar(asset_type) ==
  CASE asset_type = "crypto" -> 1000000
    [] asset_type = "forex" -> 100000
    [] OTHER -> 100

\* self.asset_configs.get(asset_type, self.asset_configs['stock']):
\* risk_per_trade in thousandths, max_position_size in hundredths,
\* stop_multiplier and target_rr_ratio in tenths, min_price in milli-ticks
RiskConfig(asset_type) ==
  CASE asset_type = "crypto" ->
         [risk_per_trade |-> 5, max_position_size |-> 5, stop_multiplier |-> 20,
          target_rr_ratio |-> 25, min_price |-> 1000]
    [] asset_type = "forex" ->
         [risk_per_trade |-> 15, max_position_size |-> 15, stop_multiplier |-> 10,
          target_rr_ratio |-> 15, min_price |-> 1000]
    [] OTHER ->
         [risk_per_trade |-> 10, max_position_size |-> 10, stop_multiplier |-> 15,
          target_rr_ratio |-> 20, min_price |-> 1000]

\* _detect_asset_type(symbol): the same statements as _get_asset_type
DetectAssetType(symbol) == GetAssetType(symbol)

\* abs(bars[i].high - bars[i].low), and for every bar but the first of the 14
\* the larger of that and the distances of high and low from the close before
TrueRange(bars, i, first) ==
  LET high_low == bars[i].high - bars[i].low
  IN  IF i > first
      THEN MaxOf(high_low, MaxOf(AbsOf(bars[i].high - bars[i - 1].close),
                                 AbsOf(bars[i].low - bars[i - 1].close)))
      ELSE high_low

RECURSIVE SumTrueRanges(_, _, _)
SumTrueRanges(bars, i, first) ==
  IF i < first THEN 0
  ELSE TrueRange(bars, i, first) + SumTrueRanges(bars, i - 1, first)

\* the ATR of lines 86-100, in ticks: the last bar's range with fewer than 14
\* bars, else the mean true range of the last 14 (the series drawn below have
\* true ranges whose sum 14 divides)
Atr(bars) ==
  IF Len(bars) < 14
  THEN AbsOf(bars[Len(bars)].high - bars[Len(bars)].low)
  ELSE SumTrueRanges(bars, Len(bars), Len(bars) - 13) \div 14

\* signal.price * 0.02 for crypto, * 0.01 otherwise, in milli-ticks
MinStopDistance(asset_type, price) ==
  IF asset_type = "crypto" THEN price * 20 ELSE price * 10

\* Faulty variant: the candidate nearer to the reference price is taken.
StopBeforeMinDistanceTighter(signal, asset_type, atr) ==
  LET stop_distance == atr * RiskConfig(asset_type).stop_multiplier * 100
  IN  CASE signal.signal_type = "entry_long" ->
             IF signal.level_price # 0 /\ signal.level_type = "resistance"
             THEN MaxOf(signal.price * 1000 - stop_distance, signal.level_price * 990)
             ELSE signal.price * 1000 - stop_distance
        [] signal.signal_type = "entry_short" ->
             IF signal.level_price # 0 /\ signal.level_type = "support"
             THEN MinOf(signal.price * 1000 + stop_distance, signal.level_price * 1010)
             ELSE signal.price * 1000 + stop_distance
        [] OTHER -> 0

\* lines 108-119 and 126-137: the stop before the minimum distance is applied,
\* in milli-ticks; level_price 0 is a signal without metadata["level_price"]
StopBeforeMinDistance(signal, asset_type, atr) ==
  LET stop_distance == atr * RiskConfig(asset_type).stop_multiplier * 100
  IN  CASE signal.signal_type = "entry_long" ->
             IF signal.level_price # 0 /\ signal.level_type = "resistance"
             THEN MinOf(signal.price * 1000 - stop_distance, signal.level_price * 990)
             ELSE signal.price * 1000 - stop_distance
        [] signal.signal_type = "entry_short" ->
             IF signal.level_price # 0 /\ signal.level_type = "support"
             THEN MaxOf(signal.price * 1000 + stop_distance, signal.level_price * 1010)
             ELSE signal.price * 1000 + stop_distance
        [] OTHER -> 0

\* lines 121-124 and 139-142: the stop pushed out to the minimum distance
StopLoss(signal, asset_type, atr) ==
  LET stop == StopBeforeMinDistance(signal, asset_type, atr)
      min_stop_distance == MinStopDistance(asset_type, signal.price)
  IN  CASE signal.signal_type = "entry_long" ->
             IF signal.price * 1000 - stop < min_stop_distance
             THEN signal.price * 1000 - min_stop_distance ELSE stop
        [] signal.signal_type = "entry_short" ->
             IF stop - signal.price * 1000 < min_stop_distance
             THEN signal.price * 1000 + min_stop_distance ELSE stop
        [] OTHER -> stop

\* floor(a * 10^digits / c), one decimal digit at a time
RECURSIVE LongDiv(_, _, _, _)
LongDiv(q, m, c, digits) ==
  IF digits = 0 THEN q
  ELSE LongDiv(q * 10 + (m * 10) \div c, (m * 10) % c, c, digits - 1)

\* lines 144-176: the position size for a price risk in milli-ticks.  The size
\* is in the unit the code leaves it in: whole units for crypto (the fraction
\* dropped), units for forex, notional in ticks for a stock.  A division by a
\* zero signal.price raises ZeroDivisionError.
PositionSize(signal, asset_type, price_risk) ==
  LET cfg == RiskConfig(asset_type)
      tpd == TicksPerDollar(asset_type)
      risk_amount == (AccountSize * cfg.risk_per_trade) \div 1000
      max_size == (AccountSize * cfg.max_position_size) \div 100
      \* risk_amount / price_risk is risk_amount * tpd * 1000 / price_risk
      sized ==
        CASE asset_type = "crypto" ->
               \* min(position_size, max_size)
               [raised |-> FALSE,
                size |-> IF price_risk <= 0 THEN 0
                         ELSE MinOf(LongDiv((risk_amount * tpd) \div price_risk,
                                            (risk_amount * tpd) % price_risk,
                                            price_risk, 3),
                                    max_size)]
          [] asset_type = "forex" ->
               \* round(min(position_size, max_size / price) / 1000) * 1000;
               \* rounding is monotone, so it is taken of each operand
               IF signal.price = 0 THEN [raised |-> TRUE, size |-> 0]
               ELSE [raised |-> FALSE,
                     size |-> 1000 *
                       MinOf(IF price_risk <= 0 THEN 0
                             ELSE RoundDiv(risk_amount * tpd, price_risk),
                             RoundDiv(max_size * tpd, signal.price * 1000))]
          [] OTHER ->
               \* int(min(position_size / price, max_size / price)) * price
               IF signal.price = 0 THEN [raised |-> TRUE, size |-> 0]
               ELSE [raised |-> FALSE,
                     size |-> signal.price *
                       MinOf(IF price_risk <= 0 THEN 0
                             ELSE ((risk_amount * tpd * tpd * 1000) \div price_risk)
                                    \div signal.price,
                             (max_size * tpd) \div signal.price)]
      \* asset_config.get('min_position', 10.0): ten dollars, units or lots
      min_position == IF asset_type \in {"crypto", "forex"} THEN 10 ELSE 10 * tpd
  IN  [raised |-> sized.raised,
       size |-> IF sized.size < min_position THEN 0 ELSE sized.size]

\* a call without a signal
NoSignal == [signal_type |-> "none"]

\* execute({"signal": signal, "price_data": PriceData(bars)}); an empty bars
\* stands for a missing price_data as well.  The clock is not an argument:
\* the code never reads it.
RiskManagerExecute(signal, bars) ==
  IF signal = NoSignal \/ bars = <<>> THEN [outcome |-> "none"]
  ELSE LET asset_type == IF signal.asset_type = "absent"
                         THEN DetectAssetType(signal.symbol)
                         ELSE signal.asset_type
           cfg == RiskConfig(asset_type)
           atr == Atr(bars)
           stop == StopLoss(signal, asset_type, atr)
           price_risk == AbsOf(signal.price * 1000 - stop)
           sized == PositionSize(signal, asset_type, price_risk)
           take_profit ==
             CASE signal.signal_type = "entry_long" ->
                    signal.price * 1000 + (price_risk * cfg.target_rr_ratio) \div 10
               [] signal.signal_type = "entry_short" ->
                    signal.price * 1000 - (price_risk * cfg.target_rr_ratio) \div 10
               [] OTHER -> 0
       IN  IF sized.raised THEN [outcome |-> "raised"]
           ELSE [outcome |-> "params",
                 position_size |-> sized.size,
                 stop_loss_price |-> MaxOf(stop, cfg.min_price),
                 take_profit_price |-> MaxOf(take_profit, cfg.min_price),
                 trailing_stop_distance |-> atr,
                 price_risk |-> price_risk]

\* a bar with the given range
OneBar(range) == << [high |-> 100 + range, low |-> 100, close |-> 100] >>

\* fourteen rising bars, each with a true range of 6 ticks: the first by its
\* own range, the others by the gap from the close before
FourteenBars ==
  [k \in 1..14 |->
     IF k = 1 THEN [high |-> 106, low |-> 100, close |-> 106]
     ELSE [high |-> 100 + 6 * k, low |-> 98 + 6 * k, close |-> 100 + 6 * k]]

SizerBars == {<<>>, OneBar(0), OneBar(4), OneBar(400), FourteenBars}

\* the symbol and the metadata["asset_type"] of a signal ("absent": no such key)
SizerAssets ==
  { <<"AAPL", "stock">>, <<"AAPL", "absent">>, <<"AAPL", "commodity">>,
    <<"AAPL", "forex">>, <<"BTC-USD", "crypto">>, <<"BTC-USD", "absent">> }

\* reference prices in ticks: none, about the minimum tradable price, and a
\* usual one (100.00, 1.000000, 0.90000 and 1.10000)
SizerPrices(asset_type) ==
  CASE asset_type = "crypto" -> {0, 2, 1000000}
    [] asset_type = "forex" -> {0, 1, 90000, 110000}
    [] OTHER -> {0, 1, 10000}

\* the breakout level a signal names: none (level_price 0), or one half a
\* percent away from the reference price
SizerLevels(price) ==
  { [level_price |-> 0, level_type |-> "none"],
    [level_price |-> price - price \div 200, level_type |-> "resistance"],
    [level_price |-> price + price \div 200, level_type |-> "support"] }

\* the class execute works with for a symbol and a metadata["asset_type"]
SizerClass(a) == IF a[2] = "absent" THEN DetectAssetType(a[1]) ELSE a[2]

\* the signals; expiration 0 is a signal with expiration=None
SizerSignals ==
  UNION { UNION { UNION {
    { [signal_type |-> ty, price |-> pr, symbol |-> a[1], asset_type |-> a[2],
       level_price |-> lv.level_price, level_type |-> lv.level_type,
       expiration |-> ex] :
        ty \in {"entry_long", "entry_short"}, ex \in {0, 2} } :
    lv \in SizerLevels(pr) } :
    pr \in SizerPrices(SizerClass(a)) } :
    a \in SizerAssets }

\* the clock when execute is called
SizerTimes == {1, 2, 3}

SizerInit ==
  /\ NoEngine
  /\ call \in { [fn |-> "risk_manager", done |-> FALSE,
                 args |-> [signal |-> s, bars |-> b, now |-> n], ret |-> <<>>] :
                 s \in SizerSignals \cup {NoSignal}, b \in SizerBars, n \in SizerTimes }

Size ==
  /\ call.fn = "risk_manager"
  /\ ~call.done
  /\ call' = [call EXCEPT !.done = TRUE,
                          !.ret = RiskManagerExecute(call.args.signal, call.args.bars)]
  /\ UNCHANGED <<equities, running, store, bak, backups, signals, result, threads>>

SizerNext == Size

SizerSpec == SizerInit /\ [][SizerNext]_vars

(***************************************************************************)
(* BreakoutSignalGenerator.execute (breakout_signal.py).  Closes, level     *)
(* prices and volumes are whole numbers, strengths are in tenths.          *)
(***************************************************************************)
\* self.min_level_strength = 0.7, in tenths
MinLevelStrength == 7

\* self.min_volume_ratio = 1.2, in tenths
MinVolumeRatio == 12

\* Python's s[k:] and s[:k] for any integer k: a negative k counts from the
\* end, and -0 is 0, so s[-0:] is all of s and s[:-0] is empty
SliceFrom(s, k) ==
  LET start == IF k < 0 THEN MaxOf(Len(s) + k, 0) ELSE MinOf(k, Len(s))
  IN  SubSeq(s, start + 1, Len(s))

SliceTo(s, k) ==
  LET end == IF k < 0 THEN MaxOf(Len(s) + k, 0) ELSE MinOf(k, Len(s))
  IN  SubSeq(s, 1, end)

RECURSIVE SumVolumes(_)
SumVolumes(bars) ==
  IF bars = <<>> THEN 0 ELSE bars[1].volume + SumVolumes(Tail(bars))

\* line 60: the bars avg_volume is the mean of
VolumeWindow(bars) == IF Len(bars) >= 20 THEN SliceFrom(bars, -20) ELSE bars

\* lines 80 and 107: recent_bars[-1].volume > avg_volume * min_volume_ratio,
\* with avg_volume = SumVolumes(window) / Len(window)
VolumeIncreased(bars) ==
  LET window == VolumeWindow(bars)
  IN  bars[Len(bars)].volume * Len(window) * 10 > SumVolumes(window) * MinVolumeRatio

\* Faulty variant: the bars before the confirmation window are not looked at.
AllBelowSkipped(recent, price_level) == TRUE

\* lines 74 and 104
AllBelow(recent, price_level) ==
  \A i \in 1..Len(recent) : recent[i].close < price_level

\* lines 77 and 101
AllAbove(recent, price_level) ==
  \A i \in 1..Len(recent) : recent[i].close > price_level

\* how many ticks of the clock make a minute
TicksPerMinute == 60

\* the value of the k-th datetime.now() of a call made at time now, on a
\* clock that moves step ticks between two reads (0: both reads of a signal
\* see the same instant)
ClockRead(now, step, k) == now + step * (k - 1)

\* lines 83-96 and 110-123: the signal of a level that fired, after reads
\* reads of the clock; timestamp and expiration each read the clock
BreakoutSignal(signal_type, bars, level, cfg, clock, reads) ==
  [signal_type |-> signal_type, price |-> bars[Len(bars)].close,
   timestamp |-> ClockRead(clock.now, clock.step, reads + 1),
   expiration |-> ClockRead(clock.now, clock.step, reads + 2)
                    + cfg.signal_expiry_minutes * TicksPerMinute,
   confidence |-> level.strength, level_price |-> level.price,
   level_type |-> level.level_type, breakout_bar |-> Len(bars)]

\* lines 68-123: the signals one level adds
LevelSignals(bars, recent, level, cfg, clock, reads) ==
  CASE level.level_type = "resistance" ->
         IF /\ AllBelow(SliceTo(recent, -cfg.confirmation_candles), level.price)
            /\ AllAbove(SliceFrom(recent, -cfg.confirmation_candles), level.price)
            /\ VolumeIncreased(bars)
         THEN << BreakoutSignal("entry_long", bars, level, cfg, clock, reads) >>
         ELSE <<>>
    [] level.level_type = "support" ->
         IF /\ AllAbove(SliceTo(recent, -cfg.confirmation_candles), level.price)
            /\ AllBelow(SliceFrom(recent, -cfg.confirmation_candles), level.price)
            /\ VolumeIncreased(bars)
         THEN << BreakoutSignal("entry_short", bars, level, cfg, clock, reads) >>
         ELSE <<>>
    [] OTHER -> <<>>

RECURSIVE CheckLevels(_, _, _, _, _, _)
CheckLevels(bars, recent, levels, cfg, clock, reads) ==
  IF levels = <<>> THEN <<>>
  ELSE LET added == LevelSignals(bars, recent, levels[1], cfg, clock, reads)
       IN  added \o CheckLevels(bars, recent, Tail(levels), cfg, clock,
                                reads + 2 * Len(added))

\* execute({"price_data": PriceData(bars), "level_data": LevelData(levels)})
\* under the configuration cfg, on the clock clock
BreakoutExecute(bars, levels, cfg, clock) ==
  LET strong_levels == SelectSeq(levels, LAMBDA l : l.strength >= MinLevelStrength)
      recent_bars == SliceFrom(bars, -cfg.confirmation_candles - 2)
  IN  IF bars = <<>> \/ levels = <<>> \/ strong_levels = <<>> THEN <<>>
      ELSE IF Len(recent_bars) < cfg.confirmation_candles + 2 THEN <<>>
      ELSE CheckLevels(bars, recent_bars, strong_levels, cfg, clock, 0)

\* self.confirmation_candles as configure sets it
ConfirmationCandles == {0, 1, 2}

\* self.signal_expiry_minutes as configure sets it: the default, none, and a
\* negative number
SignalExpiryMinutes == {60, 0, -5}

\* the time of the call, and how far the clock moves between two reads
BreakoutNow == 1000
ClockSteps == {0, 1}

\* the newest bars: up to four closes below, at and above 50, the last bar
\* with its own volume
MaxRecent == 4
RecentBars ==
  UNION { { [i \in 1..n |-> [close |-> c[i], volume |-> IF i = n THEN lv ELSE v]] :
              c \in [1..n -> {48, 50, 51}], v \in {750, 900}, lv \in {750, 1200, 1500} } :
          n \in 1..MaxRecent }

\* the bars before them: none, seventeen, or twenty the oldest of which has
\* a volume outside the 20-bar window
OlderBars ==
  { <<>>,
    [i \in 1..17 |-> [close |-> 48, volume |-> 1000]],
    [i \in 1..20 |-> [close |-> 48, volume |-> IF i = 1 THEN 100000 ELSE 750]] }

Resistance(price, strength) ==
  [price |-> price, level_type |-> "resistance", strength |-> strength]
Support(price, strength) ==
  [price |-> price, level_type |-> "support", strength |-> strength]

BreakoutLevels ==
  { <<>>, << Resistance(50, 8) >>, << Resistance(50, 6) >>, << Support(50, 7) >>,
    << Resistance(50, 8), Support(50, 10) >>,
    << Resistance(47, 9), Resistance(50, 6), Resistance(50, 7) >>,
    << [price |-> 50, level_type |-> "pivot", strength |-> 9], Resistance(50, 8) >> }

BreakoutInit ==
  /\ NoEngine
  /\ call \in { [fn |-> "breakout_signal", done |-> FALSE,
                 args |-> [bars |-> older \o recent, levels |-> levels,
                           confirmation_candles |-> cc,
                           signal_expiry_minutes |-> minutes],
                 ret |-> <<>>] :
                 older \in OlderBars, recent \in RecentBars,
                 levels \in BreakoutLevels, cc \in ConfirmationCandles,
                 minutes \in SignalExpiryMinutes }

GenerateSignals ==
  /\ call.fn = "breakout_signal"
  /\ ~call.done
  /\ \E step \in ClockSteps :
       call' = [call EXCEPT
                  !.done = TRUE,
                  !.ret = BreakoutExecute(
                            call.args.bars, call.args.levels,
                            [confirmation_candles |-> call.args.confirmation_candles,
                             signal_expiry_minutes |-> call.args.signal_expiry_minutes],
                            [now |-> BreakoutNow, step |-> step])]
  /\ UNCHANGED <<equities, running, store, bak, backups, signals, result, threads>>

BreakoutNext == GenerateSignals

BreakoutSpec == BreakoutInit /\ [][BreakoutNext]_vars

(***************************************************************************)
(* SupportResistanceDetector.execute (sr_detector.py).  Prices are whole    *)
(* numbers; a strength is a whole number of 1/StrengthScale, which is exact *)
(* for the prices drawn below; a clustered price is in 1/ClusterScale.      *)
(***************************************************************************)
\* self.threshold = 0.03, in percent
Threshold == 3

\* the prices of the series
DetectorPrices == {96, 98, 99, 100}

\* a common multiple of the cluster sizes
ClusterScale == 6

\* Threshold * lcm(DetectorPrices) * ClusterScale: every strength below is a
\* whole number of this unit
StrengthScale == 69854400

RECURSIVE SeqMax(_)
SeqMax(s) == IF Len(s) = 1 THEN s[1] ELSE MaxOf(s[1], SeqMax(Tail(s)))

RECURSIVE SeqMin(_)
SeqMin(s) == IF Len(s) = 1 THEN s[1] ELSE MinOf(s[1], SeqMin(Tail(s)))

\* min(left_diff, right_diff) / self.threshold for differences diff_left and
\* diff_right over the price at, capped at 1.0 (lines 104-109, 125-130)
Strength(diff_left, diff_right, at) ==
  MinOf(100 * MinOf(diff_left, diff_right) * (StrengthScale \div (Threshold * at)),
        StrengthScale)

\* lines 100-110, from index i (counted from 1) on
RECURSIVE FindPeaksFrom(_, _, _)
FindPeaksFrom(data, window, i) ==
  IF i > Len(data) - window THEN <<>>
  ELSE LET strength == Strength(data[i] - SeqMin(SubSeq(data, i - window, i - 1)),
                                data[i] - SeqMin(SubSeq(data, i + 1, i + window)),
                                data[i])
           found == IF /\ data[i] = SeqMax(SubSeq(data, i - window, i + window))
                       /\ strength > 0
                    THEN << [price |-> data[i] * ClusterScale, strength |-> strength] >>
                    ELSE <<>>
       IN  found \o FindPeaksFrom(data, window, i + 1)

\* lines 121-131
RECURSIVE FindTroughsFrom(_, _, _)
FindTroughsFrom(data, window, i) ==
  IF i > Len(data) - window THEN <<>>
  ELSE LET strength == Strength(SeqMax(SubSeq(data, i - window, i - 1)) - data[i],
                                SeqMax(SubSeq(data, i + 1, i + window)) - data[i],
                                data[i])
           found == IF /\ data[i] = SeqMin(SubSeq(data, i - window, i + window))
                       /\ strength > 0
                    THEN << [price |-> data[i] * ClusterScale, strength |-> strength] >>
                    ELSE <<>>
       IN  found \o FindTroughsFrom(data, window, i + 1)

\* sorted(levels, key=lambda x: x[0]): ascending by price, equal prices in
\* their first order
RECURSIVE InsertByPrice(_, _)
InsertByPrice(x, sorted) ==
  IF sorted = <<>> THEN << x >>
  ELSE IF sorted[1].price <= x.price
       THEN << sorted[1] >> \o InsertByPrice(x, Tail(sorted))
       ELSE << x >> \o sorted

RECURSIVE SortByPrice(_)
SortByPrice(levels) ==
  IF levels = <<>> THEN <<>>
  ELSE InsertByPrice(levels[Len(levels)], SortByPrice(SubSeq(levels, 1, Len(levels) - 1)))

RECURSIVE SumField(_, _)
SumField(levels, f) ==
  IF levels = <<>> THEN 0 ELSE levels[1][f] + SumField(Tail(levels), f)

\* lines 158-160 and 167-169: the averages of a cluster
ClusterAverage(cluster) ==
  [price |-> SumField(cluster, "price") \div Len(cluster),
   strength |-> SumField(cluster, "strength") \div Len(cluster)]

\* lines 148-169, from index i of the levels sorted by price, with the
\* cluster being built; two prices are close when they differ by less than
\* self.threshold / 2 of the lower one
RECURSIVE ClusterFrom(_, _, _)
ClusterFrom(sorted_levels, i, current_cluster) ==
  IF i > Len(sorted_levels) THEN << ClusterAverage(current_cluster) >>
  ELSE IF AbsOf(sorted_levels[i].price - sorted_levels[i - 1].price) * 200
            < Threshold * sorted_levels[i - 1].price
       THEN ClusterFrom(sorted_levels, i + 1, Append(current_cluster, sorted_levels[i]))
       ELSE << ClusterAverage(current_cluster) >>
              \o ClusterFrom(sorted_levels, i + 1, << sorted_levels[i] >>)

\* _cluster_levels
ClusterLevels(levels) ==
  IF levels = <<>> THEN <<>>
  ELSE LET sorted_levels == SortByPrice(levels)
       IN  ClusterFrom(sorted_levels, 2, << sorted_levels[1] >>)

\* _find_peaks and _find_troughs
FindPeaks(data, window) == ClusterLevels(FindPeaksFrom(data, window, window + 1))
FindTroughs(data, window) == ClusterLevels(FindTroughsFrom(data, window, window + 1))

\* lines 64-82: the PriceLevel objects of the pairs strong enough
RECURSIVE PriceLevels(_, _, _)
PriceLevels(pairs, level_type, min_strength) ==
  IF pairs = <<>> THEN <<>>
  ELSE (IF pairs[1].strength * 10 >= min_strength * StrengthScale
        THEN << [price |-> pairs[1].price, level_type |-> level_type,
                 strength |-> pairs[1].strength] >>
        ELSE <<>>)
       \o PriceLevels(Tail(pairs), level_type, min_strength)

\* Faulty variant: the weaker levels come first.
RECURSIVE InsertByStrengthAscending(_, _)
InsertByStrengthAscending(x, sorted) ==
  IF sorted = <<>> THEN << x >>
  ELSE IF sorted[1].strength <= x.strength
       THEN << sorted[1] >> \o InsertByStrengthAscending(x, Tail(sorted))
       ELSE << x >> \o sorted

\* levels.sort(key=lambda x: x.strength, reverse=True): descending by
\* strength, equal strengths in their first order
RECURSIVE InsertByStrength(_, _)
InsertByStrength(x, sorted) ==
  IF sorted = <<>> THEN << x >>
  ELSE IF sorted[1].strength >= x.strength
       THEN << sorted[1] >> \o InsertByStrength(x, Tail(sorted))
       ELSE << x >> \o sorted

RECURSIVE SortByStrength(_)
SortByStrength(levels) ==
  IF levels = <<>> THEN <<>>
  ELSE InsertByStrength(levels[Len(levels)],
                        SortByStrength(SubSeq(levels, 1, Len(levels) - 1)))

RECURSIVE Column(_, _)
Column(bars, f) == IF bars = <<>> THEN <<>> ELSE << bars[1][f] >> \o Column(Tail(bars), f)

\* execute(PriceData(bars)) under the configuration cfg; min_strength is in
\* tenths
DetectorExecute(bars, cfg) ==
  IF Len(bars) < cfg.window_size * 2 THEN <<>>
  ELSE LET resistance_levels == FindPeaks(Column(bars, "high"), cfg.window_size)
           support_levels == FindTroughs(Column(bars, "low"), cfg.window_size)
           levels == PriceLevels(resistance_levels, "resistance", cfg.min_strength)
                       \o PriceLevels(support_levels, "support", cfg.min_strength)
       IN  SliceTo(SortByStrength(levels), cfg.max_levels)

\* the bars of a series, by their high and low
BarShapes ==
  { [high |-> 100, low |-> 99], [high |-> 100, low |-> 98], [high |-> 99, low |-> 96],
    [high |-> 98, low |-> 96], [high |-> 96, low |-> 96] }

\* the longest series
MaxBars == 6

\* window_size, max_levels and min_strength as configure sets them
DetectorConfigs ==
  { [window_size |-> w, max_levels |-> m, min_strength |-> 5] :
      w \in {1, 2}, m \in {2, 5} }

DetectorInit ==
  /\ NoEngine
  /\ call \in { [fn |-> "sr_detector", done |-> FALSE,
                 args |-> [bars |-> bars, cfg |-> cfg], ret |-> <<>>] :
                 bars \in UNION { [1..n -> BarShapes] : n \in 1..MaxBars },
                 cfg \in DetectorConfigs }

Detect ==
  /\ call.fn = "sr_detector"
  /\ ~call.done
  /\ call' = [call EXCEPT !.done = TRUE,
                          !.ret = DetectorExecute(call.args.bars, call.args.cfg)]
  /\ UNCHANGED <<equities, running, store, bak, backups, signals, result, threads>>

DetectorNext == Detect

DetectorSpec == DetectorInit /\ [][DetectorNext]_vars

(***************************************************************************)
(* PriceBar (core/models.py).                                              *)
(***************************************************************************)
\* Faulty variant: only the high is corrected.
PostInitHighOnly(bar) ==
  IF bar.high < MaxOf(bar.open, bar.close) \/ bar.low > MinOf(bar.open, bar.close)
  THEN [bar EXCEPT !.high = MaxOf(MaxOf(bar.open, bar.high), MaxOf(bar.low, bar.close))]
  ELSE bar

\* PriceBar.__post_init__: self.high is assigned first, and self.low is the
\* minimum taken with the high just assigned
PostInit(bar) ==
  IF bar.high < MaxOf(bar.open, bar.close) \/ bar.low > MinOf(bar.open, bar.close)
  THEN LET high == MaxOf(MaxOf(bar.open, bar.high), MaxOf(bar.low, bar.close))
           low == MinOf(MinOf(bar.open, high), MinOf(bar.low, bar.close))
       IN  [bar EXCEPT !.high = high, !.low = low]
  ELSE bar

\* the prices a bar is built from
MaxBarPrice == 4
BarPrices == 1..MaxBarPrice

BarInit ==
  /\ NoEngine
  /\ call \in { [fn |-> "price_bar", done |-> FALSE,
                 args |-> [open |-> o, high |-> h, low |-> l, close |-> c],
                 ret |-> <<>>] :
                 o \in BarPrices, h \in BarPrices, l \in BarPrices, c \in BarPrices }

\* PriceBar(timestamp, open, high, low, close): the dataclass assigns the
\* fields and calls __post_init__
ConstructBar ==
  /\ call.fn = "price_bar"
  /\ ~call.done
  /\ call' = [call EXCEPT !.done = TRUE, !.ret = PostInit(call.args)]
  /\ UNCHANGED <<equities, running, store, bak, backups, signals, result, threads>>

BarNext == ConstructBar

BarSpec == BarInit /\ [][BarNext]_vars

(***************************************************************************)
(* Properties.                                                             *)
(***************************************************************************)
AllPrices == PricesUpTo(Len(PriceLadder))

Tracked(symbol) == symbol \in DOMAIN equities

\* the trigger of each class as the specification gives it, in percent
StatedThreshold(asset_type) ==
  CASE asset_type = "stock" -> 5
    [] asset_type = "crypto" -> 3
    [] asset_type = "forex" -> 2

LevelsOf(e) == GenerateDcaLevels(e.entry_price, e.drawdown_pct, e.levels, e.asset_type)

\* price is at or below some generated level and more than the class trigger
\* below the last buy
DcaDue(e, price) ==
  /\ \E i \in 1..Len(LevelsOf(e)) : price <= LevelsOf(e)[i]
  /\ price * 100 < e.last_buy_price * (100 - StatedThreshold(e.asset_type))

DcaRequests(sigs) == SelectSeq(sigs, LAMBDA x : x.order_type = "dca_level")
InitialRequests(sigs) == SelectSeq(sigs, LAMBDA x : x.order_type = "initial_entry")

\* what C1 says of a call on_price(symbol, price) on a symbol holding a position
DcaLegAsStated(symbol, price) ==
  LET e == equities[symbol]
      reqs == DcaRequests(signals')
      first == CHOOSE i \in 1..Len(LevelsOf(e)) :
                 /\ price <= LevelsOf(e)[i]
                 /\ \A j \in 1..(i - 1) : price > LevelsOf(e)[j]
  IN  /\ (reqs # <<>>) <=> DcaDue(e, price)
      /\ reqs # <<>> =>
           /\ signals' = reqs
           /\ reqs[1].symbol = symbol
           /\ reqs[1].price = LevelsOf(e)[first]
           /\ equities'[symbol] =
                [e EXCEPT !.position_count = e.position_count + 1,
                          !.last_buy_price = price]
           /\ equities'[symbol].entry_price = e.entry_price
      /\ reqs = <<>> => equities'[symbol] = e

\* C1 as stated: for a tracked symbol with the system on and a position,
\* on_price emits a DCA request iff the price is at or below a generated level
\* and below last_buy_price * (1 - threshold), for EVERY price; the request is
\* at that level's price, position_count grows by one, last_buy_price becomes
\* the price, entry_price stays; without a request the state is unchanged.
C1_DcaLegEveryPrice ==
  [][\A symbol \in Symbols, price \in AllPrices :
       (/\ Tracked(symbol)
        /\ equities[symbol].system_on
        /\ equities[symbol].has_position
        /\ OnPrice(symbol, price))
       => DcaLegAsStated(symbol, price)]_vars

\* C1 (amended): the same for every price > 0; a price <= 0 emits nothing and
\* leaves the symbol's state unchanged, whatever the levels are.
C1_DcaLegPositivePrice ==
  [][\A symbol \in Symbols, price \in AllPrices :
       (/\ Tracked(symbol)
        /\ equities[symbol].system_on
        /\ equities[symbol].has_position
        /\ OnPrice(symbol, price))
       => IF price > 0 THEN DcaLegAsStated(symbol, price)
          ELSE signals' = <<>> /\ equities'[symbol] = equities[symbol]]_vars

\* a second DCA leg has just been requested
C1_Witness ==
  /\ result.op = "on_price"
  /\ Len(signals) = 1
  /\ signals[1].order_type = "dca_level"
  /\ equities[signals[1].symbol].position_count = 3
  /\ equities[signals[1].symbol].last_buy_price < signals[1].price

\* C2: for a tracked symbol with the system on and no position, on_price with
\* price > 0 emits exactly one request, the initial entry at price, and leaves
\* has_position = TRUE, position_count = 1, entry_price = last_buy_price = price.
C2_InitialEntry ==
  [][\A symbol \in Symbols, price \in AllPrices :
       (/\ Tracked(symbol)
        /\ equities[symbol].system_on
        /\ ~equities[symbol].has_position
        /\ price > 0
        /\ OnPrice(symbol, price))
       => /\ Len(signals') = 1
          /\ signals'[1].order_type = "initial_entry"
          /\ signals'[1].symbol = symbol
          /\ signals'[1].price = price
          /\ equities'[symbol] =
               [equities[symbol] EXCEPT !.has_position = TRUE,
                                        !.position_count = 1,
                                        !.entry_price = price,
                                        !.last_buy_price = price]]_vars

\* an initial entry has just been requested
C2_Witness ==
  /\ result.op = "on_price"
  /\ Len(signals) = 1
  /\ signals[1].order_type = "initial_entry"
  /\ equities[signals[1].symbol].position_count = 1
  /\ equities[signals[1].symbol].entry_price = signals[1].price

\* C3: every on_price call emits at most one request; the call that makes the
\* initial entry emits no DCA request; position_count grows by at most one,
\* also when the price is below several levels at once.
C3_AtMostOneRequest ==
  [][\A symbol \in Symbols, price \in AllPrices :
       OnPrice(symbol, price)
       => /\ Len(signals') <= 1
          /\ Tracked(symbol) =>
               /\ symbol \in DOMAIN equities'
               /\ equities'[symbol].position_count
                    <= equities[symbol].position_count + 1
               /\ ~equities[symbol].has_position => DcaRequests(signals') = <<>>]_vars

\* a DCA leg was requested at a price below two levels or more
C3_Witness ==
  /\ result.op = "on_price"
  /\ Len(signals) = 1
  /\ signals[1].order_type = "dca_level"
  /\ LET e == equities[signals[1].symbol]
     IN  Cardinality({i \in 1..Len(LevelsOf(e)) : e.last_buy_price <= LevelsOf(e)[i]}) >= 2

\* C4: on_price for a tracked symbol whose system is off emits nothing and
\* changes neither any EquityState nor the store, its .bak or the backups,
\* whatever the price and whether or not the symbol has a position.
C4_SystemOffNoEffect ==
  [][\A symbol \in Symbols, price \in AllPrices :
       (/\ Tracked(symbol)
        /\ ~equities[symbol].system_on
        /\ OnPrice(symbol, price))
       => /\ signals' = <<>>
          /\ equities' = equities
          /\ store' = store /\ bak' = bak /\ backups' = backups]_vars

\* on_price has just been called while every symbol is tracked and switched
\* off, one of them holding a position
C4_Witness ==
  /\ result.op = "on_price"
  /\ DOMAIN equities = Symbols
  /\ \A symbol \in Symbols : ~equities[symbol].system_on
  /\ \E symbol \in Symbols : equities[symbol].has_position

\* C5: after each add, toggle, remove and state-changing on_price returns,
\* the store holds exactly the in-memory set of EquityStates.
C5_StoreHoldsMemory ==
  (running /\ result.mutated) => store = Serialize(equities)

\* C6: starting the engine on a store with malformed content (invalid JSON,
\* undecodable bytes, or JSON that is no map of records) yields an empty state
\* set and leaves a .backup_<timestamp> file holding the original content.
C6_MalformedQuarantined ==
  [][\A ts \in Times :
       (store \in Malformed /\ Start(ts))
       => /\ running'
          /\ equities' = EmptyEquities
          /\ backups'[ts] = store]_vars

\* C7: starting the engine on a store that is missing, zero-length or an empty
\* map is a cold start: the engine runs with an empty state set, no
\* .backup_<timestamp> file is created, and the store is a valid empty store.
C7_ColdStart ==
  [][\A ts \in Times :
       (store \in {NoFile, ZeroLength, Serialize(EmptyEquities)} /\ Start(ts))
       => /\ running'
          /\ equities' = EmptyEquities
          /\ backups' = backups
          /\ store' = Serialize(EmptyEquities)
          /\ Parse(store') = EmptyEquities]_vars

\* the engine has just started on a zero-length or missing store: the store is
\* now the empty map and the .bak holds the zero-length content
C7_Witness ==
  /\ result.op = "start"
  /\ running
  /\ equities = EmptyEquities
  /\ store = Serialize(EmptyEquities)
  /\ bak = ZeroLength
  /\ \A ts \in Times : backups[ts] = NoFile

\* the step is a start that renamed the store to a .backup_<ts> file
RenamedAway == ~running /\ \E ts \in Times : backups'[ts] = store

\* C8: whenever a step of the engine overwrites an existing store (the store
\* existed, was not renamed away first, and its content changed), the .bak
\* afterwards holds exactly the content the store had before the step.
C8_BakHoldsPrevious ==
  [][(/\ running'
      /\ store # NoFile
      /\ store' # store
      /\ ~RenamedAway)
     => bak' = store]_vars

\* a save has just replaced a store that held a symbol, and the .bak holds
\* that earlier, different content
C8_Witness ==
  /\ running
  /\ result.mutated
  /\ store = Serialize(equities)
  /\ bak.kind = "json"
  /\ DOMAIN Parse(bak) # {}
  /\ bak # store

\* what a restart would load from the files as they are
Reloaded(s, b, q, ts) == LoadEquities([store |-> s, bak |-> b, backups |-> q], ts).eq

\* C9: remove(symbol) of a tracked symbol, in any state, leaves it absent from
\* the in-memory map and from the persisted store (a restart does not load it)
\* and every other symbol's EquityState unchanged; remove of an untracked
\* symbol changes nothing and returns False.
C9_RemoveDeletes ==
  [][\A symbol \in Symbols :
       RemoveEquity(symbol)
       => IF Tracked(symbol)
          THEN /\ DOMAIN equities' = DOMAIN equities \ {symbol}
               /\ \A other \in DOMAIN equities \ {symbol} :
                    equities'[other] = equities[other]
               /\ \A ts \in Times :
                    symbol \notin DOMAIN Reloaded(store', bak', backups', ts)
               /\ ~(store'.kind = "json" /\ symbol \in DOMAIN Parse(store'))
          ELSE /\ equities' = equities
               /\ store' = store /\ bak' = bak /\ backups' = backups
               /\ result'.ok = FALSE]_vars

\* a symbol holding a position with its system on has just been removed while
\* another symbol stays tracked
C9_Witness ==
  /\ result.op = "remove"
  /\ result.mutated
  /\ result.ok
  /\ bak.kind = "json"
  /\ \E symbol \in DOMAIN Parse(bak) \ DOMAIN equities :
       /\ Parse(bak)[symbol].system_on
       /\ Parse(bak)[symbol].has_position
  /\ DOMAIN equities # {}
  /\ store = Serialize(equities)

\* C10: toggle(symbol) on a tracked symbol flips system_on and changes no other
\* field of any EquityState; a second toggle restores the original
\* EquityStates; toggle on an untracked symbol changes no state.
C10_ToggleFlipsOnly ==
  [][\A symbol \in Symbols :
       ToggleSystem(symbol)
       => IF Tracked(symbol)
          THEN /\ equities' =
                    [equities EXCEPT ![symbol].system_on = ~equities[symbol].system_on]
               /\ ToggleSystemOp(equities',
                                 [store |-> store', bak |-> bak', backups |-> backups'],
                                 symbol).eq = equities
          ELSE /\ equities' = equities
               /\ store' = store /\ bak' = bak /\ backups' = backups]_vars

\* a symbol with two legs bought has just been switched off
C10_Witness ==
  /\ result.op = "toggle"
  /\ result.mutated
  /\ ~result.ok
  /\ \E symbol \in DOMAIN equities :
       /\ ~equities[symbol].system_on
       /\ equities[symbol].has_position
       /\ equities[symbol].position_count = 2
       /\ bak.kind = "json"
       /\ symbol \in DOMAIN Parse(bak)
       /\ Parse(bak)[symbol].system_on

\* the bounds of each class as the specification gives them: the greatest level
\* count and the greatest drawdown (in tenths of a percent)
StatedMaxLevels(asset_type) ==
  CASE asset_type = "stock" -> 10
    [] asset_type = "crypto" -> 15
    [] asset_type = "forex" -> 8
StatedMaxDrawdown(asset_type) ==
  CASE asset_type = "stock" -> 200
    [] asset_type = "crypto" -> 300
    [] asset_type = "forex" -> 150

\* x clamped into [lo, hi]
Clamped(x, lo, hi) == IF x < lo THEN lo ELSE IF x > hi THEN hi ELSE x

\* the class add works with: the one given, the one detected from the symbol
\* when none is given, stock when the one given is unknown
StatedClass(symbol, asset_arg) ==
  IF asset_arg = "none" THEN GetAssetType(symbol)
  ELSE IF asset_arg \in {"stock", "crypto", "forex"} THEN asset_arg
  ELSE "stock"

WithinClassBounds(e) ==
  /\ e.levels \in 1..StatedMaxLevels(e.asset_type)
  /\ e.drawdown_pct >= 10
  /\ e.drawdown_pct <= StatedMaxDrawdown(e.asset_type)

\* C11: add(symbol, levels, drawdown_pct, asset_class) leaves the symbol with
\* system_on = FALSE, has_position = FALSE, position_count = 0, levels clamped
\* into [1, max_levels] and drawdown_pct into [1.0, max_drawdown] of its class
\* (an unknown class counting as stock); and after every step of add, toggle,
\* on_price and remove from an empty store every tracked symbol's levels and
\* drawdown_pct are within its class bounds.
C11_AddClamps ==
  [][/\ \A symbol \in Symbols, args \in AddArgs \cup LadderAddArgs, ts \in Times :
          AddEquity(symbol, args, ts)
          => LET e == equities'[symbol]
                 class == StatedClass(symbol, args[3])
             IN  /\ ~e.system_on /\ ~e.has_position /\ e.position_count = 0
                 /\ e.asset_type = class
                 /\ e.levels = Clamped(args[1], 1, StatedMaxLevels(class))
                 /\ e.drawdown_pct = Clamped(args[2], 10, StatedMaxDrawdown(class))
     /\ \A symbol \in DOMAIN equities' : WithinClassBounds(equities'[symbol])]_vars

\* a symbol has just been added with 99 levels and 50% and holds the bounds of
\* the crypto class, switched off and without a position
C11_Witness ==
  /\ result.op = "add"
  /\ result.ok
  /\ \E symbol \in DOMAIN equities :
       /\ equities[symbol].asset_type = "crypto"
       /\ equities[symbol].levels = 15
       /\ equities[symbol].drawdown_pct = 300
       /\ ~equities[symbol].system_on
       /\ equities[symbol].position_count = 0
       /\ store = Serialize(equities)

\* C12: on_price for a symbol that is not tracked is reported to the caller as
\* an error, an outcome other than the normal return of an empty request list
\* that a tracked symbol gives, and leaves the engine's state unchanged.
C12_UntrackedReported ==
  [][\A symbol \in Symbols, price \in AllPrices :
       (~Tracked(symbol) /\ OnPrice(symbol, price))
       => /\ ~(result'.ok /\ signals' = <<>>)
          /\ equities' = equities
          /\ store' = store /\ bak' = bak /\ backups' = backups]_vars

\* what the call of thread t, run alone, makes of the state it started from
SerialResult(t) ==
  MemoryOp(threads[t].op, threads[t].before, FileSystem,
           threads[t].symbol, threads[t].price).eq

\* C13: when calls for different symbols have run in two threads and all have
\* returned, each call's symbol is in the state its own call gives it, and the
\* store holds the in-memory state, the mutations of every call included.
C13_DifferentSymbolsIndependent ==
  (/\ running
   /\ \A t \in Threads : ~InFlight(t)
   /\ \E t \in Threads : threads[t].pc = "returned")
  => /\ \A t \in Threads :
          threads[t].pc = "returned"
          => LET s == threads[t].symbol
                 r == SerialResult(t)
             IN  /\ (s \in DOMAIN equities) = (s \in DOMAIN r)
                 /\ s \in DOMAIN r => equities[s] = r[s]
     /\ store = Serialize(equities)

LevelsReturned == call.fn = "generate_dca_levels" /\ call.done

\* C14: for every entry price > 0, class, and drawdown_pct and level count
\* that add accepts for the class, the levels generate_dca_levels returns,
\* rounded as the code rounds them, are strictly decreasing and all below the
\* entry price.
C14_LevelsStrictlyDecrease ==
  LevelsReturned
  => /\ \A i \in 1..(Len(call.ret) - 1) : call.ret[i] > call.ret[i + 1]
     /\ \A i \in 1..Len(call.ret) : call.ret[i] < call.args.entry_price

\* the call of the scenario: entry 100.00, 5%, 3 levels, stock
ScenarioLevelsCall ==
  /\ LevelsReturned
  /\ call.args = [entry_price |-> 10000, drawdown_pct |-> 50, levels |-> 3,
                  asset_type |-> "stock"]

\* within 0.05 of each other, in ticks of 0.01
Approximately(a, b) == a - b <= 5 /\ b - a <= 5

\* C15 as stated: entry price 100, drawdown_pct 5, 3 levels, stock gives levels
\* approximately [94.0, 87.2, 79.6].
C15_ScenarioLevelsAsStated ==
  ScenarioLevelsCall
  => /\ Len(call.ret) = 3
     /\ Approximately(call.ret[1], 9400)
     /\ Approximately(call.ret[2], 8720)
     /\ Approximately(call.ret[3], 7960)

\* C15 (amended): entry price 100, drawdown_pct 5, 3 levels, stock gives
\* exactly [94.0, 88.0, 82.0], each level being 100 x (1 - 5 x (i+1) x 1.2 / 100).
C15_ScenarioLevels ==
  ScenarioLevelsCall => call.ret = <<9400, 8800, 8200>>

\* the scenario's call has returned three levels, the first at 94.00
C15_Witness ==
  /\ ScenarioLevelsCall
  /\ Len(call.ret) = 3
  /\ call.ret[1] = 9400

Sized == call.fn = "risk_manager" /\ call.done
ParamsReturned == Sized /\ call.ret.outcome = "params"

\* C16: every RiskParameters returned for a long signal has
\* stop_loss_price < reference price < take_profit_price, and for a short
\* signal take_profit_price < reference price < stop_loss_price, whatever the
\* (positive) reference price, the ATR, the class and the level, floors
\* included.
C16_StopAndTargetOrdered ==
  (ParamsReturned /\ call.args.signal.price > 0)
  => LET price == call.args.signal.price * 1000
     IN  /\ call.args.signal.signal_type = "entry_long"
              => /\ call.ret.stop_loss_price < price
                 /\ price < call.ret.take_profit_price
         /\ call.args.signal.signal_type = "entry_short"
              => /\ call.ret.take_profit_price < price
                 /\ price < call.ret.stop_loss_price

\* the shares the specification's rule gives a stock signal: the smaller of
\* risk_amount / price_risk and cap / reference price, rounded down
StatedShares(price, price_risk) ==
  LET risk_amount == (AccountSize * 10) \div 1000
      cap == (AccountSize * 10) \div 100
  IN  MinOf((risk_amount * 100 * 1000) \div price_risk, (cap * 100) \div price)

\* C17: for a stock signal the position size is
\* min(risk_amount / price_risk, cap / reference price) shares rounded down
\* (10 shares for account 10000, reference price 100 and stop 95), here for
\* sizes of at least the ten-dollar minimum; the size returned is read as that
\* many shares, or as their notional.
C17_StockShares ==
  (/\ ParamsReturned
   /\ SizerClass(<<call.args.signal.symbol, call.args.signal.asset_type>>) = "stock"
   /\ call.args.signal.price > 0
   /\ call.ret.price_risk > 0)
  => LET price == call.args.signal.price
         shares == StatedShares(price, call.ret.price_risk)
     IN  shares * price >= 10 * 100
         => \/ call.ret.position_size = shares * price
            \/ call.ret.position_size = shares * 100

\* C18: RiskSizer returns null when the price risk is zero, when the final
\* size is below the class minimum and when the signal or the price series is
\* missing; it returns no RiskParameters for a trade to skip and never raises.
C18_NullWhenSkipped ==
  Sized
  => /\ call.ret.outcome # "raised"
     /\ (call.args.signal = NoSignal \/ call.args.bars = <<>>)
          => call.ret.outcome = "none"
     /\ call.ret.outcome = "params"
          => call.ret.price_risk > 0 /\ call.ret.position_size > 0

\* C19: no RiskParameters comes out of a signal whose expiry has passed: with
\* now >= expiration the signal is discarded.
C19_ExpiredDiscarded ==
  (/\ Sized
   /\ call.args.signal # NoSignal
   /\ call.args.signal.expiration # 0
   /\ call.args.now >= call.args.signal.expiration)
  => call.ret.outcome # "params"

SignalsGenerated == call.fn = "breakout_signal" /\ call.done

\* the breakout condition as the specification words it, for a series that
\* has the cc + 2 bars: of the
\* last cc + 2 bars the two before the confirmation window closed strictly
\* below (above) the level, the last cc closed strictly above (below) it, and
\* the last volume times the number of bars averaged exceeds their total
\* volume times min_volume_ratio
StatedBreakout(bars, level, cc, long) ==
  LET n == Len(bars)
      averaged == IF n >= 20 THEN (n - 19)..n ELSE 1..n
      total == SumVolumes([i \in 1..Cardinality(averaged) |-> bars[n - Cardinality(averaged) + i]])
  IN  /\ n >= cc + 2
      /\ \A i \in (n - cc - 1)..(n - cc) :
           IF long THEN bars[i].close < level.price ELSE bars[i].close > level.price
      /\ \A i \in (n - cc + 1)..n :
           IF long THEN bars[i].close > level.price ELSE bars[i].close < level.price
      /\ bars[n].volume * Cardinality(averaged) * 10 > total * MinVolumeRatio

RECURSIVE StatedSignals(_, _, _)
StatedSignals(bars, levels, cc) ==
  IF levels = <<>> THEN <<>>
  ELSE LET level == levels[1]
           fired ==
             IF level.strength < MinLevelStrength THEN <<>>
             ELSE IF level.level_type = "resistance" /\ StatedBreakout(bars, level, cc, TRUE)
             THEN << [signal_type |-> "entry_long", confidence |-> level.strength,
                      level_price |-> level.price] >>
             ELSE IF level.level_type = "support" /\ StatedBreakout(bars, level, cc, FALSE)
             THEN << [signal_type |-> "entry_short", confidence |-> level.strength,
                      level_price |-> level.price] >>
             ELSE <<>>
       IN  fired \o StatedSignals(bars, Tail(levels), cc)

\* the signals returned are, level by level, the ones the specification words
ReturnsStatedSignals ==
  LET stated == StatedSignals(call.args.bars, call.args.levels,
                              call.args.confirmation_candles)
  IN  /\ Len(call.ret) = Len(stated)
      /\ \A i \in 1..Len(stated) :
           /\ call.ret[i].signal_type = stated[i].signal_type
           /\ call.ret[i].confidence = stated[i].confidence
           /\ call.ret[i].level_price = stated[i].level_price

C21_ExpiresAfterCreation ==
  SignalsGenerated
  => \A i \in 1..Len(call.ret) :
       /\ call.ret[i].expiration > call.ret[i].timestamp
       /\ \E j \in 1..Len(call.args.levels) :
            /\ call.args.levels[j].price = call.ret[i].level_price
            /\ call.args.levels[j].level_type = call.ret[i].level_type
            /\ call.args.levels[j].strength = call.ret[i].confidence

Detected == call.fn = "sr_detector" /\ call.done

\* C22: for every price series the levels detect returns are sorted by
\* strength descending, are at most max_levels, and each has a strength in
\* [min_strength, 1.0]; a series of fewer than 2 x window bars gives no level.
C22_LevelSetBounded ==
  Detected
  => LET cfg == call.args.cfg
     IN  /\ \A i \in 1..(Len(call.ret) - 1) :
              call.ret[i].strength >= call.ret[i + 1].strength
         /\ Len(call.ret) <= cfg.max_levels
         /\ \A i \in 1..Len(call.ret) :
              /\ call.ret[i].strength * 10 >= cfg.min_strength * StrengthScale
              /\ call.ret[i].strength <= StrengthScale
         /\ Len(call.args.bars) < 2 * cfg.window_size => call.ret = <<>>

\* three levels found, of which the two strongest are returned, in order
C22_Witness ==
  /\ Detected
  /\ call.args.cfg.max_levels = 2
  /\ Len(DetectorExecute(call.args.bars, [call.args.cfg EXCEPT !.max_levels = 5])) = 3
  /\ Len(call.ret) = 2
  /\ call.ret[1].strength > call.ret[2].strength
  /\ call.ret[2].strength < StrengthScale

BarConstructed == call.fn = "price_bar" /\ call.done

\* high >= max(open, close) and low <= min(open, close)
BarInvariant(bar) ==
  /\ bar.high >= MaxOf(bar.open, bar.close)
  /\ bar.low <= MinOf(bar.open, bar.close)

\* C23 as stated: for every open, high, low and close the constructed PriceBar
\* has high >= max(open, close) and low <= min(open, close); a bar is always
\* constructed, with its open and close as given; a bar that satisfied the
\* invariant keeps its high and low, and a violating one gets the largest and
\* the smallest of the four prices.
C23_BarAutoCorrectedAsStated ==
  BarConstructed
  => LET given == call.args
         bar == call.ret
         prices == {given.open, given.high, given.low, given.close}
     IN  /\ BarInvariant(bar)
         /\ bar.open = given.open /\ bar.close = given.close
         /\ BarInvariant(given) => bar.high = given.high /\ bar.low = given.low
         /\ ~BarInvariant(given)
              => /\ \A x \in prices : bar.low <= x /\ x <= bar.high
                 /\ bar.high \in prices /\ bar.low \in prices

\* C23, amended: the same, but a violating bar gets as its high the largest
\* of the four prices and as its low the smallest of open, low and close: the
\* high it was given does not count towards the low.
C23_BarAutoCorrected ==
  BarConstructed
  => LET given == call.args
         bar == call.ret
     IN  /\ BarInvariant(bar)
         /\ bar.open = given.open /\ bar.close = given.close
         /\ BarInvariant(given) => bar.high = given.high /\ bar.low = given.low
         /\ ~BarInvariant(given)
              => /\ bar.high = MaxOf(MaxOf(given.open, given.high),
                                     MaxOf(given.low, given.close))
                 /\ bar.low = MinOf(given.open, MinOf(given.low, given.close))

\* a bar given with a high below its open, its low and its close
C23_Witness ==
  /\ BarConstructed
  /\ call.args = [open |-> 2, high |-> 1, low |-> 3, close |-> 4]
  /\ call.ret = [open |-> 2, high |-> 4, low |-> 2, close |-> 4]

\* the stop returned when stop is the stop before the minimum distance: pushed
\* out to the minimum distance, then raised to the minimum tradable price
AfterFloors(signal, asset_type, stop) ==
  LET price == signal.price * 1000
      min_stop_distance == MinStopDistance(asset_type, signal.price)
      pushed == IF signal.signal_type = "entry_long"
                THEN (IF price - stop < min_stop_distance
                      THEN price - min_stop_distance ELSE stop)
                ELSE (IF stop - price < min_stop_distance
                      THEN price + min_stop_distance ELSE stop)
  IN  MaxOf(pushed, RiskConfig(asset_type).min_price)

\* a long signal naming a resistance level, or a short one naming a support
NamesOppositeLevel(signal) ==
  /\ signal.level_price # 0
  /\ \/ signal.signal_type = "entry_long" /\ signal.level_type = "resistance"
     \/ signal.signal_type = "entry_short" /\ signal.level_type = "support"

\* the two candidates: price -/+ ATR x stop_multiplier, level x 0.99 / 1.01
StopCandidates(signal, asset_type, bars) ==
  LET stop_distance == Atr(bars) * RiskConfig(asset_type).stop_multiplier * 100
  IN  IF signal.signal_type = "entry_long"
      THEN [by_atr |-> signal.price * 1000 - stop_distance,
            by_level |-> signal.level_price * 990]
      ELSE [by_atr |-> signal.price * 1000 + stop_distance,
            by_level |-> signal.level_price * 1010]

\* C24 as stated: for a long signal naming a resistance level (a short one
\* naming a support level) the stop before the minimum-distance floor is the
\* candidate closer to the reference price, so the stop returned is that
\* candidate after the floors.
C24_TighterStopAsStated ==
  (ParamsReturned /\ NamesOppositeLevel(call.args.signal))
  => LET signal == call.args.signal
         asset_type == SizerClass(<<signal.symbol, signal.asset_type>>)
         c == StopCandidates(signal, asset_type, call.args.bars)
         tighter == IF signal.signal_type = "entry_long"
                    THEN MaxOf(c.by_atr, c.by_level) ELSE MinOf(c.by_atr, c.by_level)
     IN  call.ret.stop_loss_price = AfterFloors(signal, asset_type, tighter)

\* C24, amended: the stop before the minimum-distance floor is the candidate
\* farther from the reference price: the lower of the two for a long signal,
\* the higher for a short one.
C24_FartherStop ==
  (ParamsReturned /\ NamesOppositeLevel(call.args.signal))
  => LET signal == call.args.signal
         asset_type == SizerClass(<<signal.symbol, signal.asset_type>>)
         c == StopCandidates(signal, asset_type, call.args.bars)
         farther == IF signal.signal_type = "entry_long"
                    THEN MinOf(c.by_atr, c.by_level) ELSE MaxOf(c.by_atr, c.by_level)
     IN  call.ret.stop_loss_price = AfterFloors(signal, asset_type, farther)

\* a long stock signal at 100.00 naming the resistance 99.50, with an ATR of
\* 4.00: the candidates are 94.00 and 98.505, the stop returned is 94.00
C24_Witness ==
  /\ ParamsReturned
  /\ call.args.signal.signal_type = "entry_long"
  /\ call.args.signal.level_type = "resistance"
  /\ call.args.signal.price = 10000
  /\ call.args.signal.level_price = 9950
  /\ SizerClass(<<call.args.signal.symbol, call.args.signal.asset_type>>) = "stock"
  /\ call.args.bars = OneBar(400)
  /\ call.ret.stop_loss_price = 9400000

\* C25: every RiskParameters returned has position_size >= 0 and a size within
\* the cap account_size x max_position_size in the unit of its class: a
\* stock's notional (whole shares x price) and a crypto size within the cap
\* itself, a forex size, rounded to the nearest 1,000 units, within the cap
\* divided by the reference price.
C25_SizeWithinCap ==
  ParamsReturned
  => LET signal == call.args.signal
         asset_type == SizerClass(<<signal.symbol, signal.asset_type>>)
         cap == (AccountSize * RiskConfig(asset_type).max_position_size) \div 100
     IN  /\ call.ret.position_size >= 0
         /\ CASE asset_type = "crypto" -> call.ret.position_size <= cap
              [] asset_type = "forex" ->
                   call.ret.position_size * signal.price <= cap * TicksPerDollar(asset_type)
              [] OTHER -> call.ret.position_size <= cap * TicksPerDollar(asset_type)

\* the fields of a signal record that are attributes of SignalData; the others
\* are the keys of its metadata map
SignalAttributes ==
  {"symbol", "signal_type", "price", "timestamp", "expiration", "confidence"}

MetadataKeys(signal) == DOMAIN signal \ SignalAttributes

\* the requests of the DCA engine carry asset_type in their metadata
DcaRequestsCarryAssetType ==
  \A i \in 1..Len(signals) : "asset_type" \in MetadataKeys(signals[i])

\* C26: every signal emitted carries asset_type in its metadata: the
\* initial-entry and DCA-leg requests of the DCA engine, and the breakout
\* signals, which carry level_price and level_type as well.
C26_AssetTypeInMetadata ==
  /\ DcaRequestsCarryAssetType
  /\ SignalsGenerated
       => \A i \in 1..Len(call.ret) :
            {"asset_type", "level_price", "level_type"} \subseteq MetadataKeys(call.ret[i])

\* C27: for any sequence of on_price calls on a tracked symbol, position_count
\* never exceeds the configured number of levels plus one.
C27_PositionCountBounded ==
  \A symbol \in DOMAIN equities :
    equities[symbol].position_count <= equities[symbol].levels + 1

\* C28: every DCA-entry request an on_price call emits carries the price of
\* the first generated level, level[0], whatever the price and however many
\* legs were bought before.
C28_FirstLevelAlwaysWins ==
  [][\A symbol \in LadderSymbols, price \in LadderPrices :
       (OnPrice(symbol, price) /\ Tracked(symbol))
       => \A i \in 1..Len(DcaRequests(signals')) :
            DcaRequests(signals')[i].price = LevelsOf(equities[symbol])[1]]_vars

\* a third buy made at or below the second level, requested at the first
C28_Witness ==
  \E symbol \in DOMAIN equities :
    LET e == equities[symbol]
    IN  /\ result.op = "on_price"
        /\ e.levels >= 2
        /\ e.position_count >= 3
        /\ e.last_buy_price <= LevelsOf(e)[2]
        /\ LevelsOf(e)[2] < LevelsOf(e)[1]
        /\ Len(DcaRequests(signals)) = 1
        /\ DcaRequests(signals)[1].price = LevelsOf(e)[1]

\* C29: under toggle and on_price calls a symbol that holds a position keeps
\* has_position and its entry_price and gets no further initial-entry request
\* (so at most one is emitted between its add and its next remove or re-add,
\* switching off and on included); and whenever has_position is true,
\* position_count >= 1 and last_buy_price <= entry_price.
C29_SingleInitialEntry ==
  [][/\ \A symbol \in LadderSymbols :
          (/\ \/ ToggleSystem(symbol)
              \/ \E price \in LadderPrices : OnPrice(symbol, price)
           /\ Tracked(symbol)
           /\ equities[symbol].has_position)
          => /\ symbol \in DOMAIN equities'
             /\ equities'[symbol].has_position
             /\ equities'[symbol].entry_price = equities[symbol].entry_price
             /\ InitialRequests(signals') = <<>>
     /\ \A symbol \in DOMAIN equities' :
          equities'[symbol].has_position
          => /\ equities'[symbol].position_count >= 1
             /\ equities'[symbol].last_buy_price <= equities'[symbol].entry_price]_vars

\* toggle_system has just switched on again a symbol that holds two buys: the
\* position and its entry price are kept and no request is emitted
C29_Witness ==
  \E symbol \in DOMAIN equities :
    /\ result.op = "toggle"
    /\ equities[symbol].has_position
    /\ equities[symbol].system_on
    /\ equities[symbol].position_count = 2
    /\ equities[symbol].last_buy_price < equities[symbol].entry_price
    /\ signals = <<>>

\* C30: after a crash during a store write (once .bak was copied: the store
\* untouched, truncated, partly or fully written) and a restart, the
\* EquityStates persisted before that write are loaded into the engine or
\* are still what .bak holds.
C30_CrashLosesNothing ==
  \A t \in CrashThreads :
    (threads[t].pc = "crashed" /\ running)
    => LET persisted == threads[t].buffer
       IN  \/ equities = Migrate(Parse(persisted))
           \/ bak = persisted

====
